---- MODULE Spec2Model ----
(***************************************************************************)
(* A model of package email (email.go): the encoder (msgHeaders, writeTo,  *)
(* countWriter, chunkWriter, writeHeader, messageID), the decoder          *)
(* (NewWithSize, parseMIMEParts) and the attachment life cycle (Attach,    *)
(* Close).  Byte streams are sequences of tokens: a header line, the blank *)
(* line, a boundary delimiter, a run of body bytes, a CRLF.                *)
(***************************************************************************)
EXTENDS Integers, Sequences, FiniteSets, TLC

VARIABLES
  e,      \* the Email: its fields, Headers and Attachments
  hres,   \* what e.msgHeaders() returned: [called, res, err]
  ids,    \* the calls of messageID so far: [e, ts, id] each
  cw,     \* the chunkWriter under test: [n, err]
  dst,    \* the writer the chunkWriter writes to
  fed,    \* how many payload bytes the caller has handed to chunkWriter.Write
  srcs,   \* the byte sources (io.ReadCloser) of the caller, by identity
  out,    \* the buffer a message is in: what WriteTo writes to, New reads from
  ret,    \* what WriteTo or MarshalText returned: [called, op, n, err]
  dec,    \* what New returned: [called, e, ps, err], ps the flattened leaves
  cl,     \* the calls of Email.Close: [calls, err]
  tree,   \* the MIME tree of a message that some other program wrote
  rd      \* a trimReader over a size-capped source: [in, pos, max, N, got, reads]

vars == <<e, hres, ids, cw, dst, fed, srcs, out, ret, dec, cl, tree, rd>>
cwVars == <<cw, dst, fed>>
ioVars == <<srcs, out, ret, dec, cl, tree, rd>>

(***************************************************************************)
(* Constants of email.go                                                   *)
(***************************************************************************)
maxLineLength == 76

contentDispo == "Content-Disposition"
contentID == "Content-ID"
contentXferEncoding == "Content-Transfer-Encoding"
contentType == "Content-Type"
to == "To"
cc == "Cc"
bcc == "Bcc"
from == "From"
subject == "Subject"
date == "Date"
msgID == "Message-Id"
mimeVers == "Mime-Version"
defaultContentType == "text/plain; charset=us-ascii"
hostname == "localhost.localdomain"
errFrom == "email: 'From' field cannot be empty"

Nil == "nil"
errClosed == "email: chunkWriter is closed"
errSink == "sink: write failed"
errPanic == "panic: slice bounds out of range"

(***************************************************************************)
(* Bounds of the model                                                     *)
(***************************************************************************)
MaxWrite == 160   \* longest slice handed to one chunkWriter.Write call
MaxFed == 240     \* most payload bytes handed to one chunkWriter in a run
MaxRcpt == 2      \* most addresses in To and in CC
MaxMinutes == 11  \* timestamps range over the minutes 0..MaxMinutes
MaxIDs == 2       \* most calls of messageID in a run
MaxSrc == 2       \* how many byte sources a caller holds
MaxAttach == 2    \* most attachments of an Email
MaxClose == 2     \* most calls of Email.Close in a run
MaxFailAt == 30   \* the failing write is one of the first MaxFailAt + 1
MaxLeaves == 3    \* most leaves of a decoded MIME tree
MaxClock == 0     \* time.Now() is one of the minutes 0..MaxClock
MaxStream == 4    \* most bytes of a stream read through a trimReader
MaxChunk == 3     \* most bytes one Read of the underlying source returns

(***************************************************************************)
(* Tokens of a byte stream                                                 *)
(***************************************************************************)
CRLF == [t |-> "crlf"]                 \* "\r\n"
Data(d) == [t |-> "data", d |-> d]     \* a run of body bytes
N(k) == [t |-> "name", s |-> k]        \* a header field name
SEP == [t |-> "sep"]                   \* ": "
T(x) == [t |-> "text", s |-> x]        \* the first line of a header value
C(x) == [t |-> "cont", s |-> x]        \* " " and a further line of a header value
Delim(b) == [t |-> "delim", b |-> b]   \* "--b"
End(b) == [t |-> "end", b |-> b]       \* "--b--"

TokLen(k) ==
  CASE k.t = "crlf" -> 2
    [] k.t = "data" -> Len(k.d)
    [] k.t = "name" -> Len(k.s)
    [] k.t = "sep" -> 2
    [] k.t = "text" -> Len(k.s)
    [] k.t = "cont" -> 1 + Len(k.s)
    [] k.t = "delim" -> 2 + Len(k.b)
    [] k.t = "end" -> 2 + Len(k.b) + 2

RECURSIVE ToksLen(_)
ToksLen(toks) == IF toks = <<>> THEN 0 ELSE TokLen(Head(toks)) + ToksLen(Tail(toks))

\* The bytes of a string value: its first line, then CRLF before every
\* further line.
RECURSIVE ValRest(_)
ValRest(v) ==
  IF v = <<>> THEN <<>>
  ELSE <<CRLF>> \o (IF Head(v) = "" THEN <<>> ELSE <<C(Head(v))>>) \o ValRest(Tail(v))

ValToks(v) == <<T(Head(v))>> \o ValRest(Tail(v))

\* A run of bytes as tokens: each "\r" "\n" pair is a CRLF.
RECURSIVE Lex(_, _)
Lex(b, run) ==
  IF b = <<>> THEN (IF run = <<>> THEN <<>> ELSE <<Data(run)>>)
  ELSE IF Len(b) >= 2 /\ b[1] = "\r" /\ b[2] = "\n"
  THEN (IF run = <<>> THEN <<>> ELSE <<Data(run)>>) \o <<CRLF>> \o Lex(SubSeq(b, 3, Len(b)), <<>>)
  ELSE Lex(Tail(b), Append(run, Head(b)))

(***************************************************************************)
(* The destination: an io.Writer that keeps the bytes it accepted (got,    *)
(* adjacent runs of body bytes joined, as a buffer holds them), how many   *)
(* bytes that is (acc), whether a write failed and how many writes were    *)
(* attempted after the first failure.  left counts the writes that still   *)
(* succeed before one fails (-1: none ever fails); with sticky every later *)
(* write fails too.  A failed write accepts no byte.                       *)
(***************************************************************************)
NoFail == [left |-> -1, sticky |-> FALSE]

NewSink(fail) ==
  [got |-> <<>>, acc |-> 0, left |-> fail.left, sticky |-> fail.sticky,
   failed |-> FALSE, after |-> 0]

SinkFails(w) == w.left = 0 \/ (w.failed /\ w.sticky)

Join(got, toks) ==
  IF /\ got # <<>> /\ toks # <<>>
     /\ got[Len(got)].t = "data" /\ Head(toks).t = "data"
  THEN SubSeq(got, 1, Len(got) - 1)
         \o <<[t |-> "data", d |-> got[Len(got)].d \o Head(toks).d]>>
         \o Tail(toks)
  ELSE got \o toks

SinkWrite(w, toks, n) ==
  IF SinkFails(w)
  THEN [w EXCEPT !.failed = TRUE, !.left = -1,
                 !.after = IF w.failed THEN @ + 1 ELSE @]
  ELSE [w EXCEPT !.got = Join(@, toks), !.acc = @ + n,
                 !.left = IF @ > 0 THEN @ - 1 ELSE @,
                 !.after = IF w.failed THEN @ + 1 ELSE @]

(***************************************************************************)
(* countWriter: c = [w, n]                                                 *)
(***************************************************************************)
countWriter_Write(c, toks, n) ==
  LET ok == ~SinkFails(c.w)
  IN  [c   |-> [w |-> SinkWrite(c.w, toks, n),
                n |-> c.n + (IF ok THEN n ELSE 0)],
       err |-> IF ok THEN Nil ELSE errSink]

countWriter_WriteString(c, toks, n) ==
  LET ok == ~SinkFails(c.w)
  IN  [c   |-> [w |-> SinkWrite(c.w, toks, n), n |-> c.n],
       err |-> IF ok THEN Nil ELSE errSink]

(***************************************************************************)
(* chunkWriter: k = [n, err]; its field w is the writer d it is handed.    *)
(***************************************************************************)
\* A chunkWriter that hands the whole slice to its writer in one piece.
chunkWriter_room_whole(k, p) == Len(p)

\* How many bytes of p the next write to the underlying writer takes.
chunkWriter_room(k, p) ==
  LET m0 == maxLineLength - k.n
      m1 == IF m0 = 0 THEN maxLineLength ELSE m0
  IN  IF m1 > Len(p) THEN Len(p) ELSE m1

RECURSIVE chunkWriter_loop(_, _, _, _)

\* After the line ending of a full line was written, with result r.
chunkWriter_eol(k, p, n, r) ==
  IF r.err # Nil THEN [k |-> k, d |-> r.c, n |-> n, err |-> r.err]
  ELSE chunkWriter_loop([k EXCEPT !.n = 0], r.c, p, n)

\* After c.w.Write(p[:m]) with result r: a failed write wrote no byte.
chunkWriter_wrote(k, p, n, m, r) ==
  IF r.err # Nil THEN [k |-> k, d |-> r.c, n |-> n, err |-> r.err]
  ELSE IF k.n + m = maxLineLength
  THEN chunkWriter_eol([k EXCEPT !.n = @ + m], SubSeq(p, m + 1, Len(p)), n + m,
                       countWriter_Write(r.c, <<CRLF>>, 2))
  ELSE chunkWriter_loop([k EXCEPT !.n = @ + m], r.c, SubSeq(p, m + 1, Len(p)), n + m)

chunkWriter_chunk(k, d, p, n, m) ==
  IF m < 0 THEN [k |-> k, d |-> d, n |-> n, err |-> errPanic]
  ELSE chunkWriter_wrote(k, p, n, m, countWriter_Write(d, <<Data(SubSeq(p, 1, m))>>, m))

chunkWriter_loop(k, d, p, n) ==
  IF Len(p) = 0 THEN [k |-> k, d |-> d, n |-> n, err |-> Nil]
  ELSE chunkWriter_chunk(k, d, p, n, chunkWriter_room(k, p))

chunkWriter_Write(k, d, p) ==
  IF k.err # Nil THEN [k |-> k, d |-> d, n |-> 0, err |-> k.err]
  ELSE chunkWriter_loop(k, d, p, 0)

chunkWriter_Close(k, d) ==
  IF k.err # Nil THEN [k |-> k, d |-> d, err |-> k.err]
  ELSE LET r == countWriter_Write(d, <<CRLF>>, 2)
       IN  [k |-> [k EXCEPT !.err = errClosed], d |-> r.c, err |-> r.err]

(***************************************************************************)
(* Strings and headers.  A Go string that holds line breaks is the         *)
(* sequence of its lines: <<"multipart/mixed;", "boundary=b">> is          *)
(* "multipart/mixed;\r\n boundary=b" (a line after the first is written    *)
(* after CRLF and one space), and a last line "" is a string that ends in  *)
(* CRLF.  A textproto.MIMEHeader is a function from field names to         *)
(* sequences of such values; a body is a sequence of one-byte strings.     *)
(***************************************************************************)
S(x) == <<x>>

RECURSIVE Str(_)
Str(b) == IF b = <<>> THEN "" ELSE Head(b) \o Str(Tail(b))

RECURSIVE strings_Join(_, _)
strings_Join(a, sep) ==
  IF a = <<>> THEN ""
  ELSE IF Len(a) = 1 THEN a[1]
  ELSE a[1] \o sep \o strings_Join(Tail(a), sep)

EmptyMap == [k \in {} |-> <<>>]
MapHas(m, k) == k \in DOMAIN m
MapGet(m, k) == IF k \in DOMAIN m THEN m[k] ELSE <<>>
MapPut(m, k, vals) == [x \in DOMAIN m \cup {k} |-> IF x = k THEN vals ELSE m[x]]
MapSet(m, k, v) == MapPut(m, k, <<v>>)
MapDel(m, ks) == [x \in DOMAIN m \ ks |-> m[x]]

NilHeaders == [isNil |-> TRUE, m |-> EmptyMap]
Headers(m) == [isNil |-> FALSE, m |-> m]

\* The zero value of Email
ZeroEmail ==
  [From |-> "", To |-> <<>>, CC |-> <<>>, BCC |-> <<>>, Subject |-> "",
   Text |-> <<>>, HTML |-> <<>>, Headers |-> NilHeaders, Attachments |-> <<>>]

(***************************************************************************)
(* messageID.  Times are seconds; the digest is an injective function of   *)
(* the bytes written to the hash.                                          *)
(***************************************************************************)
Minute == 60

time_Round(ts, d) ==
  LET r == ts % d IN IF r + r < d THEN ts - r ELSE ts + d - r

time_Format(layout, ts) == layout \o "@" \o ToString(ts)

messageID(em, ts) ==
  LET h0  == em.From
      h1  == h0 \o em.Subject
      buf == time_Format("RFC3339", time_Round(ts, 5 * Minute))
      h2  == h1 \o Str(em.Text)
      h3  == h2 \o Str(em.HTML)
  IN  "<sha256(" \o h3 \o ")[4:20]@" \o hostname \o ">"

(***************************************************************************)
(* msgHeaders                                                              *)
(***************************************************************************)
msgHeaders_copy(em) ==
  IF em.Headers.isNil THEN EmptyMap
  ELSE [h \in {to, cc, from, subject, date, msgID} |-> MapGet(em.Headers.m, h)]

\* res.Set(k, v) if res holds no key k and cond holds
msgHeaders_default(res, k, cond, v) ==
  IF ~MapHas(res, k) /\ cond THEN MapSet(res, k, v) ELSE res

\* The fields of e.Headers that res does not hold are copied.
msgHeaders_merge(em, res) ==
  [f \in DOMAIN res \cup DOMAIN em.Headers.m |->
     IF f \in DOMAIN res THEN res[f] ELSE em.Headers.m[f]]

\* From the test for From on
msgHeaders_required(em, now, res) ==
  IF ~MapHas(res, from) /\ em.From = ""
  THEN [res |-> EmptyMap, err |-> errFrom]
  ELSE [res |-> msgHeaders_merge(em,
                  msgHeaders_default(
                    msgHeaders_default(
                      msgHeaders_default(
                        msgHeaders_default(res, from, TRUE, S(em.From)),
                        date, TRUE, S(time_Format("RFC1123Z", now))),
                      msgID, TRUE, S(messageID(em, now))),
                    mimeVers, TRUE, S("1.0"))),
        err |-> Nil]

msgHeaders(em, now) ==
  msgHeaders_required(em, now,
    msgHeaders_default(
      msgHeaders_default(
        msgHeaders_default(msgHeaders_copy(em),
                           to, Len(em.To) > 0, S(strings_Join(em.To, ", "))),
        cc, Len(em.CC) > 0, S(strings_Join(em.CC, ", "))),
      subject, em.Subject # "", S(em.Subject)))

(***************************************************************************)
(* writeHeader.  order is the order in which the range over the header map *)
(* yields its fields.  Every io.WriteString lands in                       *)
(* countWriter.WriteString, and its error is dropped.                      *)
(***************************************************************************)
io_WriteString(c, toks) == countWriter_WriteString(c, toks, ToksLen(toks))

\* fmt.Fprintf formats into a buffer and hands it to w.Write.
fmt_Fprintf(c, toks) == countWriter_Write(c, toks, ToksLen(toks))

\* mime.QEncoding.Encode("UTF-8", v): v itself when it is printable ASCII,
\* an encoded word otherwise.
QEncoded == [v \in {S("Zo\\xC3\\xAB")} |-> S("=?UTF-8?q?Zo=C3=AB?=")]
mime_QEncode(v) == IF v \in DOMAIN QEncoded THEN QEncoded[v] ELSE v

\* The strings writeHeader writes for the values of one field, four for
\* each value.
RECURSIVE writeHeader_vals(_, _)
writeHeader_vals(field, vals) ==
  IF vals = <<>> THEN <<>>
  ELSE
    LET v == IF field \in {contentType, contentDispo} THEN Head(vals)
             ELSE mime_QEncode(Head(vals))
    IN  <<(<<N(field)>>), <<SEP>>, ValToks(v), <<CRLF>>>>
          \o writeHeader_vals(field, Tail(vals))

RECURSIVE writeHeader_strings(_, _)
writeHeader_strings(header, order) ==
  IF order = <<>> THEN <<>>
  ELSE writeHeader_vals(Head(order), header[Head(order)])
         \o writeHeader_strings(header, Tail(order))

\* One io.WriteString after the other; whether a write fails or not, the
\* next one is made.
RECURSIVE WriteStrings(_, _)
WriteStrings(c, strs) ==
  IF strs = <<>> THEN c
  ELSE LET r == io_WriteString(c, Head(strs))
       IN  CASE r.err = Nil -> WriteStrings(r.c, Tail(strs))
             [] OTHER -> WriteStrings(r.c, Tail(strs))   \* the error is dropped

writeHeader(c, header, order) == WriteStrings(c, writeHeader_strings(header, order))

RECURSIVE Perms(_)
Perms(K) ==
  IF K = {} THEN {<<>>}
  ELSE UNION {{<<x>> \o q : q \in Perms(K \ {x})} : x \in K}

\* The orders a range over header can take, up to the place of the fields
\* that hold no value (writeHeader writes nothing for them).
RangeOrders(header) == Perms({f \in DOMAIN header : header[f] # <<>>})

(***************************************************************************)
(* mime/multipart.Writer: m = [boundary, lastpart].  CreatePart and Close  *)
(* each hand their bytes to the underlying writer in one Write.            *)
(***************************************************************************)
mixedBoundary == "b-mixed"
altBoundary == "b-alt"

multipart_NewWriter(b) == [boundary |-> b, lastpart |-> FALSE]

\* sort.Strings of the part header fields the encoder uses
SortedFields == <<contentDispo, contentID, contentXferEncoding, contentType>>

RECURSIVE PartFieldToks(_, _)
PartFieldToks(k, vals) ==
  IF vals = <<>> THEN <<>>
  ELSE <<N(k), SEP>> \o ValToks(Head(vals)) \o <<CRLF>> \o PartFieldToks(k, Tail(vals))

RECURSIVE PartHeaderToks(_, _)
PartHeaderToks(header, keys) ==
  IF keys = <<>> THEN <<>>
  ELSE (IF Head(keys) \in DOMAIN header
        THEN PartFieldToks(Head(keys), header[Head(keys)]) ELSE <<>>)
       \o PartHeaderToks(header, Tail(keys))

\* What CreatePart and Close return after their one Write, with result r:
\* the writer is m1 if the write succeeded, m0 if not.
multipart_wrote(m0, m1, r) ==
  [c |-> r.c, m |-> IF r.err = Nil THEN m1 ELSE m0, err |-> r.err]

multipart_CreatePart(c, m, header) ==
  multipart_wrote(
    m, [m EXCEPT !.lastpart = TRUE],
    fmt_Fprintf(c, (IF m.lastpart THEN <<CRLF>> ELSE <<>>)
                     \o <<Delim(m.boundary), CRLF>>
                     \o PartHeaderToks(header, SortedFields) \o <<CRLF>>))

multipart_Close(c, m) ==
  multipart_wrote([m EXCEPT !.lastpart = FALSE], [m EXCEPT !.lastpart = FALSE],
                  fmt_Fprintf(c, <<CRLF, End(m.boundary), CRLF>>))

(***************************************************************************)
(* mime/quotedprintable.Writer in text mode: q = [line, cr, ws], ws the    *)
(* flushes (one Write of the underlying writer each) so far.               *)
(***************************************************************************)
lineMaxLen == 76
qpHex == [b \in {"=", " ", "\t"} |->
            CASE b = "=" -> <<"=", "3", "D">>
              [] b = " " -> <<"=", "2", "0">>
              [] b = "\t" -> <<"=", "0", "9">>]

qp_flush(q) == [q EXCEPT !.line = <<>>, !.ws = Append(@, q.line)]
qp_insertCRLF(q) == qp_flush([q EXCEPT !.line = @ \o <<"\r", "\n">>])
qp_insertSoftLineBreak(q) == qp_insertCRLF([q EXCEPT !.line = Append(@, "=")])
qp_encode(q, b) ==
  LET q1 == IF lineMaxLen - 1 - Len(q.line) < 3 THEN qp_insertSoftLineBreak(q) ELSE q
  IN  [q1 EXCEPT !.line = @ \o qpHex[b]]
qp_checkLastByte(q) ==
  IF q.line = <<>> THEN q
  ELSE LET b == q.line[Len(q.line)]
       IN  IF b \in {" ", "\t"}
           THEN qp_encode([q EXCEPT !.line = SubSeq(@, 1, Len(@) - 1)], b)
           ELSE q
qp_write(q, b) ==
  IF b \in {"\n", "\r"}
  THEN IF q.cr /\ b = "\n" THEN [q EXCEPT !.cr = FALSE]
       ELSE qp_insertCRLF(qp_checkLastByte(
              IF b = "\r" THEN [q EXCEPT !.cr = TRUE] ELSE q))
  ELSE LET q1 == IF Len(q.line) = lineMaxLen - 1 THEN qp_insertSoftLineBreak(q) ELSE q
       IN  [q1 EXCEPT !.line = Append(@, b), !.cr = FALSE]

RECURSIVE qp_Write(_, _)
qp_Write(q, p) ==
  IF p = <<>> THEN q
  ELSE qp_Write(IF Head(p) = "=" THEN qp_encode(q, Head(p)) ELSE qp_write(q, Head(p)),
                Tail(p))

qp_Close(q) == qp_flush(qp_checkLastByte(q))

\* The Writes that qp.Write(content) followed by qp.Close() make.
qp_Flushes(content) ==
  qp_Close(qp_Write([line |-> <<>>, cr |-> FALSE, ws |-> <<>>], content)).ws

\* The flushes written one by one, stopping at the first that fails.
RECURSIVE WriteAll(_, _)
WriteAll(c, ws) ==
  IF ws = <<>> THEN [c |-> c, err |-> Nil]
  ELSE LET r == countWriter_Write(c, Lex(Head(ws), <<>>), Len(Head(ws)))
       IN  IF r.err # Nil THEN r ELSE WriteAll(r.c, Tail(ws))

(***************************************************************************)
(* encoding/base64 stream encoder over a chunkWriter: enc = [buf, err].    *)
(* The four output bytes of a group g of one to three input bytes are      *)
(* "[g]1" .. "[g]4", "=" where the group is padded.                        *)
(***************************************************************************)
encChunk == 768

Quad(g) == [i \in 1..4 |-> IF i > Len(g) + 1 THEN "=" ELSE "[" \o Str(g) \o "]" \o ToString(i)]

RECURSIVE base64_Encode(_)
base64_Encode(p) ==
  IF p = <<>> THEN <<>>
  ELSE IF Len(p) <= 3 THEN Quad(p)
  ELSE Quad(SubSeq(p, 1, 3)) \o base64_Encode(SubSeq(p, 4, Len(p)))

\* What Write returns after the write of encoded bytes to the chunkWriter,
\* with result r, when that write failed.
enc_failed(enc, r) ==
  [enc |-> [enc EXCEPT !.err = r.err], k |-> r.k, c |-> r.d, err |-> r.err]

RECURSIVE enc_interior(_, _, _, _)

\* After the write of an interior chunk, with result r; p is what is left.
enc_chunk(enc, p, r) ==
  IF r.err # Nil THEN enc_failed(enc, r) ELSE enc_interior(enc, r.k, r.d, p)

\* The first nn bytes of p are encoded and written.
enc_take(enc, k, c, p, nn) ==
  enc_chunk(enc, SubSeq(p, nn + 1, Len(p)),
            chunkWriter_Write(k, c, base64_Encode(SubSeq(p, 1, nn))))

\* Large interior chunks, then the trailing fringe.
enc_interior(enc, k, c, p) ==
  IF Len(p) < 3 THEN [enc |-> [enc EXCEPT !.buf = p], k |-> k, c |-> c, err |-> Nil]
  ELSE enc_take(enc, k, c, p,
                IF encChunk > Len(p) THEN Len(p) - (Len(p) % 3) ELSE encChunk)

\* After the write of the leading fringe buf, with result r.
enc_fringe(enc, buf, p, r) ==
  IF r.err # Nil THEN enc_failed([enc EXCEPT !.buf = buf], r)
  ELSE enc_interior([enc EXCEPT !.buf = <<>>], r.k, r.d, p)

\* Leading fringe: the buffer enc.buf is filled up from p to buf.
enc_lead(enc, k, c, p, buf) ==
  IF Len(buf) < 3
  THEN [enc |-> [enc EXCEPT !.buf = buf], k |-> k, c |-> c, err |-> Nil]
  ELSE enc_fringe(enc, buf, SubSeq(p, Len(buf) - Len(enc.buf) + 1, Len(p)),
                  chunkWriter_Write(k, c, base64_Encode(buf)))

enc_Write(enc, k, c, p) ==
  IF enc.err # Nil THEN [enc |-> enc, k |-> k, c |-> c, err |-> enc.err]
  ELSE IF Len(enc.buf) > 0
  THEN enc_lead(enc, k, c, p,
                enc.buf \o SubSeq(p, 1, IF Len(p) < 3 - Len(enc.buf) THEN Len(p)
                                        ELSE 3 - Len(enc.buf)))
  ELSE enc_interior(enc, k, c, p)

\* After the write of the padded last group, with result r.
enc_closed(enc, r) ==
  [enc |-> [enc EXCEPT !.buf = <<>>, !.err = r.err], k |-> r.k, c |-> r.d, err |-> r.err]

enc_Close(enc, k, c) ==
  IF enc.err = Nil /\ Len(enc.buf) > 0
  THEN enc_closed(enc, chunkWriter_Write(k, c, base64_Encode(enc.buf)))
  ELSE [enc |-> enc, k |-> k, c |-> c, err |-> enc.err]

(***************************************************************************)
(* Byte sources (io.ReadCloser): src = [name, data, pos, seeker, closeErr, *)
(* closes, st], name the file name the caller attaches it under and st     *)
(* what the caller did with it.  srcs maps the identity of a source to its *)
(* state; an Attachment's Body is such an identity.                        *)
(***************************************************************************)
errSrcClose == "source: close failed"
io_EOF == "EOF"

src_Rest(src) == SubSeq(src.data, src.pos + 1, Len(src.data))
src_Close(src) ==
  [src |-> [src EXCEPT !.closes = @ + 1],
   err |-> IF src.closeErr THEN errSrcClose ELSE Nil]

(***************************************************************************)
(* Attach and sniffType                                                    *)
(***************************************************************************)
sniffLen == 512

\* mime.TypeByExtension(filepath.Ext(name)) for the file names of the model
mime_TypeByExtension(name) ==
  CASE name = "rad.txt" -> "text/plain; charset=utf-8"
    [] name = "doc.pdf" -> "application/pdf"
    [] OTHER -> ""

\* net/http.DetectContentType: data with a byte that text cannot hold is
\* application/octet-stream, anything else is text.
http_DetectContentType(buf) ==
  IF \E i \in 1..Len(buf) : buf[i] = "\\x00"
  THEN "application/octet-stream" ELSE "text/plain; charset=utf-8"

sniffType(name, rs) ==
  IF mime_TypeByExtension(name) # ""
  THEN [ctype |-> mime_TypeByExtension(name), rs |-> rs, err |-> Nil]
  ELSE
    LET rest == src_Rest(rs)
        n    == IF Len(rest) > sniffLen THEN sniffLen ELSE Len(rest)
    IN  IF n = 0 THEN [ctype |-> "", rs |-> rs, err |-> io_EOF]
        ELSE [ctype |-> http_DetectContentType(SubSeq(rest, 1, n)),
              rs |-> [rs EXCEPT !.pos = 0], err |-> Nil]

Attachment(filename, ctype, rc) ==
  [Name |-> filename,
   Header |-> [f \in {contentDispo, contentID, contentXferEncoding, contentType} |->
                 CASE f = contentDispo ->
                        <<S("attachment;\\r\\n filename=\"" \o filename \o "\"")>>
                   [] f = contentID -> <<S("<" \o filename \o ">")>>
                   [] f = contentXferEncoding -> <<S("base64")>>
                   [] f = contentType -> <<S(ctype)>>],
   Body |-> rc]

\* Attach(rc, filename, contentType) on the Email em, rc a key of ss.
email_Attach(em, ss, rc, filename, ctype) ==
  IF ctype = ""
  THEN IF ss[rc].seeker
       THEN LET r == sniffType(filename, ss[rc])
            IN  IF r.err # Nil
                THEN [e |-> em, srcs |-> [ss EXCEPT ![rc] = src_Close(r.rs).src],
                      err |-> r.err]
                ELSE [e |-> [em EXCEPT !.Attachments =
                               Append(@, Attachment(filename, r.ctype, rc))],
                      srcs |-> [ss EXCEPT ![rc] = r.rs], err |-> Nil]
       ELSE [e |-> [em EXCEPT !.Attachments =
                      Append(@, Attachment(filename, "application/octet-stream", rc))],
             srcs |-> ss, err |-> Nil]
  ELSE [e |-> [em EXCEPT !.Attachments = Append(@, Attachment(filename, ctype, rc))],
        srcs |-> ss, err |-> Nil]

(***************************************************************************)
(* Email.Close                                                             *)
(***************************************************************************)
RECURSIVE email_Close(_, _)
email_Close(atts, ss) ==
  IF atts = <<>> THEN [srcs |-> ss, err |-> Nil]
  ELSE LET r  == src_Close(ss[Head(atts).Body])
           s1 == [ss EXCEPT ![Head(atts).Body] = r.src]
       IN  IF r.err # Nil THEN [srcs |-> s1, err |-> r.err]
           ELSE email_Close(Tail(atts), s1)

(***************************************************************************)
(* writeTo, WriteTo and MarshalText                                        *)
(***************************************************************************)
\* The top-level header writeTo writes: msgHeaders and the Content-Type.
writeTo_hdrs(em, now) ==
  LET r == msgHeaders(em, now)
  IN  IF r.err # Nil THEN r
      ELSE [res |-> MapSet(r.res, contentType,
                           <<"multipart/mixed;", "boundary=" \o mixedBoundary>>),
            err |-> Nil]

\* writeBody after sw.CreatePart, with result r: qp.Write and qp.Close.
writeBody_qp(r, q) == [c |-> q.c, sw |-> r.m, err |-> q.err]

writeBody_part(content, r) ==
  IF r.err # Nil THEN [c |-> r.c, sw |-> r.m, err |-> r.err]
  ELSE writeBody_qp(r, WriteAll(r.c, qp_Flushes(content)))

writeBody(c, sw, content, ctype) ==
  IF Len(content) = 0 THEN [c |-> c, sw |-> sw, err |-> Nil]
  ELSE writeBody_part(content,
         multipart_CreatePart(c, sw,
           [f \in {contentType, contentXferEncoding} |->
              IF f = contentType THEN <<S(ctype)>> ELSE <<S("quoted-printable")>>]))

\* sw.Close() and its error
writeTo_swClose(r) == [c |-> r.c, err |-> r.err]

\* writeBody(e.HTML, ...) after writeBody(e.Text, ...) returned t, then
\* sw.Close(); what the two writeBody calls return is dropped.
writeTo_html(em, t) ==
  CASE t.err = Nil -> writeBody(t.c, t.sw, em.HTML, "text/html; charset=UTF-8")
    [] OTHER -> writeBody(t.c, t.sw, em.HTML, "text/html; charset=UTF-8")

writeTo_altClose(h) ==
  CASE h.err = Nil -> writeTo_swClose(multipart_Close(h.c, h.sw))
    [] OTHER -> writeTo_swClose(multipart_Close(h.c, h.sw))

\* The alternative entity.
writeTo_alternative(em, c) ==
  writeTo_altClose(
    writeTo_html(em,
      writeBody(writeHeader(c,
                            [f \in {contentType} |->
                               <<(<<"multipart/alternative;",
                                    "boundary=" \o altBoundary, "">>)>>],
                            <<contentType>>),
                multipart_NewWriter(altBoundary), em.Text,
                "text/plain; charset=UTF-8")))

\* The loop over e.Attachments: one part each, the body copied through the
\* one encoder enc into the one chunkWriter k.
RECURSIVE writeTo_attachments(_, _, _, _, _, _)

\* After io.Copy(enc, a.Body), with result w; ss holds the source read.
writeTo_copied(atts, mw, ss, w) ==
  IF w.err # Nil
  THEN [c |-> w.c, mw |-> mw, enc |-> w.enc, k |-> w.k, srcs |-> ss, err |-> w.err]
  ELSE writeTo_attachments(Tail(atts), w.c, mw, w.enc, w.k, ss)

\* io.Copy(enc, a.Body): the bytes body that are left in the source are
\* written to enc in one Write, none if there is none.
writeTo_copy(atts, mw, enc, k, ss, c, body) ==
  writeTo_copied(atts, mw,
                 [ss EXCEPT ![Head(atts).Body].pos = Len(ss[Head(atts).Body].data)],
                 IF Len(body) = 0 THEN [enc |-> enc, k |-> k, c |-> c, err |-> Nil]
                 ELSE enc_Write(enc, k, c, body))

\* After mw.CreatePart(a.Header), with result r.
writeTo_part(atts, enc, k, ss, r) ==
  IF r.err # Nil
  THEN [c |-> r.c, mw |-> r.m, enc |-> enc, k |-> k, srcs |-> ss, err |-> r.err]
  ELSE writeTo_copy(atts, r.m, enc, k, ss, r.c, src_Rest(ss[Head(atts).Body]))

writeTo_attachments(atts, c, mw, enc, k, ss) ==
  IF atts = <<>>
  THEN [c |-> c, mw |-> mw, enc |-> enc, k |-> k, srcs |-> ss, err |-> Nil]
  ELSE writeTo_part(atts, enc, k, ss, multipart_CreatePart(c, mw, Head(atts).Header))

\* return mw.Close()
writeTo_mwClose(ss, mc) == [c |-> mc.c, srcs |-> ss, err |-> mc.err]

\* After cw.Close(), with result kc.
writeTo_cwClosed(mw, ss, kc) ==
  IF kc.err # Nil THEN [c |-> kc.d, srcs |-> ss, err |-> kc.err]
  ELSE writeTo_mwClose(ss, multipart_Close(kc.d, mw))

\* After enc.Close(), with result ec.
writeTo_encClosed(mw, ss, ec) ==
  IF ec.err # Nil THEN [c |-> ec.c, srcs |-> ss, err |-> ec.err]
  ELSE writeTo_cwClosed(mw, ss, chunkWriter_Close(ec.k, ec.c))

\* After the loop over e.Attachments, with result at.
writeTo_attached(at) ==
  IF at.err # Nil THEN [c |-> at.c, srcs |-> at.srcs, err |-> at.err]
  ELSE writeTo_encClosed(at.mw, at.srcs, enc_Close(at.enc, at.k, at.c))

\* From the test on len(e.Attachments) on; alt is what the part about Text
\* and HTML returned.
writeTo_rest(em, ss, alt) ==
  IF alt.err # Nil THEN [c |-> alt.c, srcs |-> ss, err |-> alt.err]
  ELSE IF Len(em.Attachments) > 0
  THEN writeTo_attached(
         writeTo_attachments(em.Attachments, alt.c,
                             multipart_NewWriter(mixedBoundary),
                             [buf |-> <<>>, err |-> Nil], [n |-> 0, err |-> Nil], ss))
  ELSE writeTo_mwClose(ss, multipart_Close(alt.c, multipart_NewWriter(mixedBoundary)))

\* From the test on len(e.Text) and len(e.HTML) on.
writeTo_body(em, ss, c) ==
  writeTo_rest(em, ss,
               IF Len(em.Text) > 0 \/ Len(em.HTML) > 0
               THEN writeTo_alternative(em, c) ELSE [c |-> c, err |-> Nil])

\* The first boundary line, written after the header and the empty line;
\* what the writes return is dropped.
writeTo_boundary(em, ss, r) ==
  CASE r.err = Nil ->
         writeTo_body(em, ss, fmt_Fprintf(r.c, <<Delim(mixedBoundary), CRLF>>).c)
    [] OTHER ->
         writeTo_body(em, ss, fmt_Fprintf(r.c, <<Delim(mixedBoundary), CRLF>>).c)

\* After msgHeaders and hdrs.Set(contentType, ...), with result hd.
writeTo_header(em, c, ss, order, hd) ==
  IF hd.err # Nil THEN [c |-> c, srcs |-> ss, err |-> hd.err]
  ELSE writeTo_boundary(em, ss,
                        io_WriteString(writeHeader(c, hd.res, order), <<CRLF>>))

writeTo(em, c, ss, now, order) ==
  writeTo_header(em, c, ss, order, writeTo_hdrs(em, now))

\* return cw.n, err
WriteTo_return(r) == [n |-> r.c.n, err |-> r.err, w |-> r.c.w, srcs |-> r.srcs]

email_WriteTo(em, w, ss, now, order) ==
  WriteTo_return(writeTo(em, [w |-> w, n |-> 0], ss, now, order))

\* return b.Bytes(), nil; or nil, err
MarshalText_return(r) ==
  [b |-> IF r.err # Nil THEN <<>> ELSE r.w.got, err |-> r.err,
   w |-> r.w, srcs |-> r.srcs]

email_MarshalText(em, ss, now, order) ==
  MarshalText_return(email_WriteTo(em, NewSink(NoFail), ss, now, order))

(***************************************************************************)
(* The decoder.  Header values read back are Go strings without line       *)
(* breaks (a continuation line is joined with one space); a body is a      *)
(* sequence of bytes.                                                      *)
(***************************************************************************)
errMalformedHeader == "malformed MIME header line"
errNoMedia == "mime: no media type"
errUnexpectedEOF == "unexpected EOF"
errNextPart == "multipart: NextPart: EOF"
errUnexpectedLine == "multipart: unexpected line in Next()"
errQP == "quotedprintable: invalid bytes"
ErrMissingBoundary == "email: no boundary found for multipart entity"
DefaultEmailSize == 1048576

\* The bytes of a token stream.
RECURSIVE Bytes(_)
Bytes(toks) ==
  IF toks = <<>> THEN <<>>
  ELSE LET k == Head(toks)
       IN  (CASE k.t = "crlf" -> <<"\r", "\n">>
              [] k.t = "data" -> k.d
              [] k.t = "name" -> <<k.s>>
              [] k.t = "sep" -> <<":", " ">>
              [] k.t = "text" -> <<k.s>>
              [] k.t = "cont" -> <<" ", k.s>>
              [] k.t = "delim" -> <<"--" \o k.b>>
              [] k.t = "end" -> <<"--" \o k.b \o "--">>) \o Bytes(Tail(toks))

\* trimReader.Read on the one chunk that holds the whole stream: the
\* white space the chunk starts with is dropped.
RECURSIVE trimReader_Read(_)
trimReader_Read(toks) ==
  IF toks # <<>> /\ Head(toks).t = "crlf" THEN trimReader_Read(Tail(toks)) ELSE toks

\* unicode.IsSpace for the bytes of the model
unicode_IsSpace(b) == b \in {" ", "\t", "\n", "\r"}

\* bytes.TrimLeftFunc(p, unicode.IsSpace)
RECURSIVE bytes_TrimLeftFunc(_)
bytes_TrimLeftFunc(p) ==
  IF p # <<>> /\ unicode_IsSpace(Head(p)) THEN bytes_TrimLeftFunc(Tail(p)) ELSE p

\* The least of the numbers of a non-empty set
Least(P) == CHOOSE n \in P : \A m \in P : n <= m

\* What a Read yields that asks for want bytes: p, the n bytes read, and
\* the reader after it.
LimitedReader_got(r, n) ==
  [p |-> SubSeq(r.in, r.pos + 1, r.pos + n),
   r |-> [r EXCEPT !.pos = @ + n, !.N = @ - n]]

\* io.LimitedReader.Read with room for want bytes, on a source that has k
\* bytes at hand: no more than N bytes are asked of the source, and the
\* source returns what it has of them.
LimitedReader_Read(r, want, k) ==
  LimitedReader_got(r, Least({want, r.N, k, Len(r.in) - r.pos}))

\* What trimReader.Read hands on of the result l of the underlying Read
trimReader_trimmed(l) ==
  [l.r EXCEPT !.got = @ \o bytes_TrimLeftFunc(l.p), !.reads = @ + 1]

\* trimReader.Read: what one Read of the underlying reader returned is
\* handed on without the white space it starts with.
trimReader_ReadChunk(r, want, k) == trimReader_trimmed(LimitedReader_Read(r, want, k))

\* textproto.CanonicalMIMEHeaderKey for the field names of the model
CanonicalMIMEHeaderKey(k) ==
  CASE k = "Content-ID" -> "Content-Id"
    [] k = "MIME-Version" -> "Mime-Version"
    [] k = "Message-ID" -> "Message-Id"
    [] OTHER -> k

\* The continuation lines of a header value that starts at r[i].
RECURSIVE ReadContinued(_, _, _)
ReadContinued(r, i, v) ==
  IF i + 1 <= Len(r) /\ r[i].t = "crlf" /\ r[i + 1].t = "cont"
  THEN ReadContinued(r, i + 2, v \o " " \o r[i + 1].s)
  ELSE [v |-> v, i |-> i]

\* textproto.Reader.ReadMIMEHeader: the header lines up to the blank line.
RECURSIVE ReadMIMEHeader(_, _)

\* After the line of one field and its continuation lines, which end at
\* r[i]; m holds the field.
ReadMIMEHeader_next(r, i, m) ==
  IF i > Len(r) THEN [hdr |-> m, rest |-> <<>>, err |-> io_EOF]
  ELSE IF r[i].t = "crlf" THEN ReadMIMEHeader(SubSeq(r, i + 1, Len(r)), m)
  ELSE [hdr |-> m, rest |-> <<>>, err |-> errMalformedHeader]

\* The value cv.v of the field key is added to m.
ReadMIMEHeader_add(r, m, key, cv) ==
  ReadMIMEHeader_next(r, cv.i, MapPut(m, key, Append(MapGet(m, key), cv.v)))

ReadMIMEHeader(r, m) ==
  IF r = <<>> THEN [hdr |-> m, rest |-> <<>>, err |-> io_EOF]
  ELSE IF Head(r).t = "crlf" THEN [hdr |-> m, rest |-> Tail(r), err |-> Nil]
  ELSE IF Len(r) >= 3 /\ r[1].t = "name" /\ r[2].t = "sep" /\ r[3].t = "text"
  THEN ReadMIMEHeader_add(r, m, CanonicalMIMEHeaderKey(r[1].s),
                          ReadContinued(r, 4, r[3].s))
  ELSE [hdr |-> m, rest |-> <<>>, err |-> errMalformedHeader]

MIMEHeader_Get(m, k) == IF MapGet(m, k) = <<>> THEN "" ELSE MapGet(m, k)[1]

\* mime.ParseMediaType for the Content-Type values of the model: the media
\* type and the boundary parameter of each.
Boundaries == {mixedBoundary, altBoundary}
MultipartTypes == {"multipart/mixed", "multipart/alternative", "multipart/signed"}
MediaTypes ==
  {<<"text/plain", "text/plain", "">>,
   <<"text/html", "text/html", "">>,
   <<"text/plain; charset=UTF-8", "text/plain", "">>,
   <<"text/html; charset=UTF-8", "text/html", "">>,
   <<"text/plain; charset=utf-8", "text/plain", "">>,
   <<"text/plain; charset=us-ascii", "text/plain", "">>,
   <<"application/pdf", "application/pdf", "">>,
   <<"application/octet-stream", "application/octet-stream", "">>}
  \cup {<<t, t, "">> : t \in MultipartTypes}
  \cup {<<t \o "; boundary=" \o b, t, b>> : t \in MultipartTypes, b \in Boundaries}

mime_ParseMediaType(v) ==
  IF \E row \in MediaTypes : row[1] = v
  THEN LET row == CHOOSE x \in MediaTypes : x[1] = v
       IN  [mtyp |-> row[2], boundary |-> row[3], err |-> Nil]
  ELSE [mtyp |-> "", boundary |-> "", err |-> errNoMedia]

\* After mime.ParseMediaType, with result r; p is the header as it is now.
parseMediaType_parsed(p, r) ==
  IF r.err # Nil THEN [p |-> p, mtyp |-> "", boundary |-> "", err |-> r.err]
  ELSE [p |-> p, mtyp |-> r.mtyp, boundary |-> r.boundary, err |-> Nil]

\* After the default Content-Type was set in a header without one.
parseMediaType_get(p) ==
  parseMediaType_parsed(p, mime_ParseMediaType(MIMEHeader_Get(p, contentType)))

parseMediaType(p) ==
  parseMediaType_get(IF ~MapHas(p, contentType)
                     THEN MapSet(p, contentType, defaultContentType) ELSE p)

\* mime/quotedprintable.Reader, line by line.
qpUnhex == [x \in {<<"3", "D">>, <<"2", "0">>, <<"0", "9">>} |->
              CASE x = <<"3", "D">> -> "="
                [] x = <<"2", "0">> -> " "
                [] x = <<"0", "9">> -> "\t"]

RECURSIVE qp_TrimRight(_)
qp_TrimRight(l) ==
  IF l # <<>> /\ l[Len(l)] \in {" ", "\t", "\r", "\n"}
  THEN qp_TrimRight(SubSeq(l, 1, Len(l) - 1)) ELSE l

RECURSIVE qp_DecodeLine(_)
qp_DecodeLine(l) ==
  IF l = <<>> THEN [b |-> <<>>, err |-> Nil]
  ELSE IF Head(l) = "="
  THEN IF Len(l) >= 3 /\ <<l[2], l[3]>> \in DOMAIN qpUnhex
       THEN LET r == qp_DecodeLine(SubSeq(l, 4, Len(l)))
            IN  [b |-> <<qpUnhex[<<l[2], l[3]>>]>> \o r.b, err |-> r.err]
       ELSE [b |-> <<>>, err |-> errQP]
  ELSE LET r == qp_DecodeLine(Tail(l))
       IN  [b |-> <<Head(l)>> \o r.b, err |-> r.err]

\* The first line of b: up to and with its "\n", or all of b.
RECURSIVE LineLen(_, _)
LineLen(b, i) ==
  IF i > Len(b) THEN Len(b) ELSE IF b[i] = "\n" THEN i ELSE LineLen(b, i + 1)

RECURSIVE qp_Decode(_)

\* The decoded line d and its line ending eol, then the lines of rest.
qp_Decode_join(d, eol, badSoft, rest) ==
  IF d.err # Nil THEN [b |-> d.b, err |-> d.err]
  ELSE IF badSoft THEN [b |-> d.b, err |-> errQP]
  ELSE [b |-> d.b \o eol \o rest.b, err |-> rest.err]

\* One line: whole with its line ending, line without the white space it
\* ends in (stripped); a line that ends in "=" has a soft line break, which
\* only a line ending may follow.
qp_Decode_line(b, whole, line, stripped, hasLF, hasCR, soft) ==
  qp_Decode_join(
    qp_DecodeLine(IF soft THEN SubSeq(line, 1, Len(line) - 1) ELSE line),
    IF soft \/ ~hasLF THEN <<>> ELSE IF hasCR THEN <<"\r", "\n">> ELSE <<"\n">>,
    /\ soft
    /\ ~(stripped # <<>> /\ stripped[1] = "\n")
    /\ ~(Len(stripped) >= 2 /\ stripped[1] = "\r" /\ stripped[2] = "\n")
    /\ ~(stripped = <<>> /\ Len(line) > 1 /\ Len(whole) = Len(b)),
    qp_Decode(SubSeq(b, Len(whole) + 1, Len(b))))

qp_Decode_trim(b, whole, line) ==
  qp_Decode_line(b, whole, line, SubSeq(whole, Len(line) + 1, Len(whole)),
                 whole[Len(whole)] = "\n",
                 whole[Len(whole)] = "\n" /\ Len(whole) >= 2
                   /\ whole[Len(whole) - 1] = "\r",
                 line # <<>> /\ line[Len(line)] = "=")

qp_Decode_whole(b, whole) == qp_Decode_trim(b, whole, qp_TrimRight(whole))

qp_Decode(b) ==
  IF b = <<>> THEN [b |-> <<>>, err |-> Nil]
  ELSE qp_Decode_whole(b, SubSeq(b, 1, LineLen(b, 1)))

\* mime/multipart: the body of a part ends before the CRLF of the next
\* delimiter line of boundary b, or at once when that line comes first.
IsBoundaryTok(k, b) == k = Delim(b) \/ k = End(b)

RECURSIVE scanUntilBoundary(_, _, _)
scanUntilBoundary(r, b, i) ==
  IF i > Len(r) THEN [body |-> r, rest |-> <<>>, err |-> errUnexpectedEOF]
  ELSE IF i = 1 /\ IsBoundaryTok(r[1], b)
  THEN [body |-> <<>>, rest |-> r, err |-> Nil]
  ELSE IF i < Len(r) /\ r[i].t = "crlf" /\ IsBoundaryTok(r[i + 1], b)
  THEN [body |-> SubSeq(r, 1, i - 1), rest |-> SubSeq(r, i, Len(r)), err |-> Nil]
  ELSE scanUntilBoundary(r, b, i + 1)

\* Where the first line of r ends: the index of its CRLF, 0 without one.
RECURSIVE FirstCRLF(_, _)
FirstCRLF(r, i) ==
  IF i > Len(r) THEN 0 ELSE IF r[i].t = "crlf" THEN i ELSE FirstCRLF(r, i + 1)

\* multipart.Reader.NextPart, up to the part header: the part found (its
\* header and the stream after it), or done at the closing delimiter.
RECURSIVE multipart_NextPart(_, _, _, _)

\* The header of the part that the delimiter line starts, with result h.
multipart_NextPart_header(h) ==
  [done |-> FALSE, hdr |-> h.hdr, rest |-> h.rest, err |-> h.err]

\* line is the next line of the stream, rest what follows its CRLF; more
\* is whether the line ended in CRLF.
multipart_NextPart_line(line, rest, more, b, partsRead, expectNewPart) ==
  IF ~more /\ line = <<End(b)>>
  THEN [done |-> TRUE, hdr |-> EmptyMap, rest |-> <<>>, err |-> Nil]
  ELSE IF ~more
  THEN [done |-> TRUE, hdr |-> EmptyMap, rest |-> <<>>, err |-> errNextPart]
  ELSE IF line = <<Delim(b)>>
  THEN multipart_NextPart_header(ReadMIMEHeader(rest, EmptyMap))
  ELSE IF line = <<End(b)>>
  THEN [done |-> TRUE, hdr |-> EmptyMap, rest |-> <<>>, err |-> Nil]
  ELSE IF expectNewPart
  THEN [done |-> TRUE, hdr |-> EmptyMap, rest |-> <<>>, err |-> errUnexpectedLine]
  ELSE IF partsRead = 0 THEN multipart_NextPart(rest, b, partsRead, FALSE)
  ELSE IF line = <<>> THEN multipart_NextPart(rest, b, partsRead, TRUE)
  ELSE [done |-> TRUE, hdr |-> EmptyMap, rest |-> <<>>, err |-> errUnexpectedLine]

\* The first line of r ends at r[i], or r holds no CRLF (i = 0).
multipart_NextPart_at(r, i, b, partsRead, expectNewPart) ==
  multipart_NextPart_line(IF i = 0 THEN r ELSE SubSeq(r, 1, i - 1),
                          IF i = 0 THEN <<>> ELSE SubSeq(r, i + 1, Len(r)),
                          i # 0, b, partsRead, expectNewPart)

multipart_NextPart(r, b, partsRead, expectNewPart) ==
  multipart_NextPart_at(r, FirstCRLF(r, 1), b, partsRead, expectNewPart)

\* The body d of a quoted-printable part, decoded.
part_Reader_qp(hdr, d) ==
  [hdr |-> MapDel(hdr, {contentXferEncoding}), r |-> Lex(d.b, <<>>), err |-> d.err]

\* The reader of a part: quoted-printable is decoded (and the field that
\* announces it deleted), any other encoding is left as it is.  The
\* quoted-printable entities of the model are leaves.
part_Reader(hdr, body) ==
  IF MIMEHeader_Get(hdr, contentXferEncoding) = "quoted-printable"
  THEN part_Reader_qp(hdr, qp_Decode(Bytes(body)))
  ELSE [hdr |-> hdr, r |-> body, err |-> Nil]

RECURSIVE parseMultipart(_, _, _, _)
RECURSIVE parseMIMEParts(_, _)

\* After parseMIMEParts(p.Header, p), with result pp; pr is the reader of
\* the part and sc where its body ends.
parseMultipart_parsed(boundary, partsRead, ps, sc, pr, pp) ==
  IF pp.err # Nil THEN [ps |-> <<>>, err |-> pp.err]
  ELSE IF pr.err # Nil THEN [ps |-> <<>>, err |-> pr.err]
  ELSE IF sc.err # Nil THEN [ps |-> <<>>, err |-> sc.err]
  ELSE parseMultipart(sc.rest, boundary, partsRead + 1, ps \o pp.ps)

parseMultipart_read(boundary, partsRead, ps, sc, pr) ==
  parseMultipart_parsed(boundary, partsRead, ps, sc, pr, parseMIMEParts(pr.hdr, pr.r))

parseMultipart_body(boundary, partsRead, ps, np, sc) ==
  parseMultipart_read(boundary, partsRead, ps, sc, part_Reader(np.hdr, sc.body))

\* After mr.NextPart(), with result np.
parseMultipart_part(boundary, partsRead, ps, np) ==
  IF np.err # Nil THEN [ps |-> <<>>, err |-> np.err]
  ELSE IF np.done THEN [ps |-> ps, err |-> Nil]
  ELSE parseMultipart_body(boundary, partsRead, ps, np,
                           scanUntilBoundary(np.rest, boundary, 1))

\* parseMultipart(r, boundary); partsRead and ps are the state of its loop.
parseMultipart(r, boundary, partsRead, ps) ==
  IF boundary = "" THEN [ps |-> <<>>, err |-> ErrMissingBoundary]
  ELSE parseMultipart_part(boundary, partsRead, ps,
                           multipart_NextPart(r, boundary, partsRead, FALSE))

\* After parseMediaType(p), with result mt.
parseMIMEParts_typed(r, mt) ==
  IF mt.err # Nil THEN [ps |-> <<>>, err |-> mt.err]
  ELSE IF mt.mtyp \in MultipartTypes
  THEN parseMultipart(r, mt.boundary, 0, <<>>)
  ELSE [ps |-> <<[ctyp |-> mt.mtyp, body |-> Bytes(r)]>>, err |-> Nil]

parseMIMEParts(p, r) == parseMIMEParts_typed(r, parseMediaType(p))

\* A switch that keeps the body of the first leaf of each type.
classify_first(em, p) ==
  CASE p.ctyp = "text/plain" /\ em.Text = <<>> -> [em EXCEPT !.Text = p.body]
    [] p.ctyp = "text/html" /\ em.HTML = <<>> -> [em EXCEPT !.HTML = p.body]
    [] OTHER -> em

\* The switch of NewWithSize on the type of one leaf.
classify(em, p) ==
  CASE p.ctyp = "text/plain" -> [em EXCEPT !.Text = p.body]
    [] p.ctyp = "text/html" -> [em EXCEPT !.HTML = p.body]
    [] OTHER -> em

RECURSIVE classifyAll(_, _)
classifyAll(em, ps) ==
  IF ps = <<>> THEN em ELSE classifyAll(classify(em, Head(ps)), Tail(ps))

\* io.LimitReader: the longest run of whole tokens within n bytes.
RECURSIVE io_LimitReader(_, _)
io_LimitReader(r, n) ==
  IF r = <<>> \/ TokLen(Head(r)) > n THEN <<>>
  ELSE <<Head(r)>> \o io_LimitReader(Tail(r), n - TokLen(Head(r)))

\* After parseMIMEParts(e.Headers, tp.R), with result ps: the loop over the
\* leaves.
NewWithSize_parsed(em, ps) ==
  IF ps.err # Nil THEN [e |-> ZeroEmail, ps |-> <<>>, err |-> ps.err]
  ELSE [e |-> classifyAll(em, ps.ps), ps |-> ps.ps, err |-> Nil]

\* hdrs is the header without Subject, To, Cc and Bcc; parseMediaType sets
\* the default Content-Type in it, and it is e.Headers.
NewWithSize_parts(em, hdrs, rest) ==
  NewWithSize_parsed([em EXCEPT !.Headers = Headers(parseMediaType(hdrs).p)],
                     parseMIMEParts(hdrs, rest))

\* After tp.ReadMIMEHeader(), with result h.
NewWithSize_header(h) ==
  IF h.err # Nil THEN [e |-> ZeroEmail, ps |-> <<>>, err |-> h.err]
  ELSE NewWithSize_parts([ZeroEmail EXCEPT !.Subject = MIMEHeader_Get(h.hdr, subject),
                                           !.To = MapGet(h.hdr, to),
                                           !.CC = MapGet(h.hdr, cc),
                                           !.BCC = MapGet(h.hdr, bcc),
                                           !.From = MIMEHeader_Get(h.hdr, from)],
                         MapDel(h.hdr, {subject, to, cc, bcc}), h.rest)

NewWithSize(r, maxSize) ==
  NewWithSize_header(
    ReadMIMEHeader(trimReader_Read(io_LimitReader(r, maxSize)), EmptyMap))

email_New(r) == NewWithSize(r, DefaultEmailSize)

(***************************************************************************)
(* The lengths of the payload runs between the CRLFs of a token stream.     *)
(***************************************************************************)
RECURSIVE Runs(_, _)
Runs(toks, cur) ==
  IF toks = <<>> THEN <<cur>>
  ELSE IF Head(toks).t = "crlf" THEN <<cur>> \o Runs(Tail(toks), 0)
  ELSE Runs(Tail(toks), cur + Len(Head(toks).d))

(***************************************************************************)
(* Values of the variables a specification does not use                    *)
(***************************************************************************)
NoHres == [called |-> FALSE, res |-> EmptyMap, err |-> Nil]

NoRet == [called |-> FALSE, op |-> "", n |-> 0, err |-> Nil]
NoDec == [called |-> FALSE, e |-> ZeroEmail, ps |-> <<>>, err |-> Nil]
NoRd == [in |-> <<>>, pos |-> 0, max |-> 0, N |-> 0, got |-> <<>>, reads |-> 0]
NoTree == [shape |-> "", kinds |-> <<>>, k |-> 0]
NoCl == [calls |-> 0, err |-> Nil]

IdleCW == cw = [n |-> 0, err |-> Nil] /\ dst = [w |-> NewSink(NoFail), n |-> 0] /\ fed = 0
IdleHdr == hres = NoHres
IdleID == ids = <<>>
IdleIO ==
  /\ srcs = <<>>
  /\ out = NewSink(NoFail)
  /\ ret = NoRet
  /\ dec = NoDec
  /\ cl = NoCl
  /\ tree = NoTree
  /\ rd = NoRd

(***************************************************************************)
(* Specification SpecCW: one chunkWriter over a destination that accepts   *)
(* every write, driven by Write calls of every size and by Close.          *)
(***************************************************************************)
InitCW ==
  /\ IdleCW
  /\ e = ZeroEmail
  /\ IdleHdr
  /\ IdleID
  /\ IdleIO

CWWrite ==
  /\ \E len \in 0..MaxWrite :
       /\ fed + len <= MaxFed
       /\ LET r == chunkWriter_Write(cw, dst, [i \in 1..len |-> fed + i])
          IN  /\ cw' = r.k
              /\ dst' = r.d
              /\ fed' = fed + r.n
  /\ UNCHANGED <<e, hres, ids, ioVars>>

CWClose ==
  /\ LET r == chunkWriter_Close(cw, dst)
     IN  /\ cw' = r.k
         /\ dst' = r.d
  /\ UNCHANGED <<fed, e, hres, ids, ioVars>>

NextCW == CWWrite \/ CWClose

SpecCW == InitCW /\ [][NextCW]_vars

\* C7: the destination never holds more than 76 consecutive payload bytes
\* without a CRLF after them, and the column counter of the chunkWriter is
\* in 0..75 after every Write call.
C7_LineCap ==
  /\ \A i \in 1..Len(Runs(dst.w.got, 0)) :
        Runs(dst.w.got, 0)[i] <= maxLineLength
  /\ cw.n \in 0..(maxLineLength - 1)

\* C7 witness: Write calls have filled at least two whole lines and left a
\* partial third one.
C7_Witness ==
  /\ cw.err = Nil
  /\ fed > 2 * maxLineLength
  /\ Len(Runs(dst.w.got, 0)) = 3
  /\ cw.n > 0

(***************************************************************************)
(* Specification SpecHdr: msgHeaders on Emails with every mix of empty and *)
(* set To, CC, Subject and From, and Headers nil, empty or holding any     *)
(* subset of To, Cc, Subject, From and one other field.                    *)
(***************************************************************************)
Addr(i) == "rcpt" \o ToString(i) \o "@x.com"
Rcpts == {[i \in 1..n |-> Addr(i)] : n \in 0..MaxRcpt}
HdrFields == {to, cc, subject, from, "X-Tag"}
HeaderInputs ==
  {NilHeaders} \cup
  {Headers([k \in K |-> <<S("hdr-" \o k)>>]) : K \in SUBSET HdrFields}
Times == {k * Minute : k \in 0..MaxMinutes}

EmailsHdr ==
  {[ZeroEmail EXCEPT !.From = f, !.To = t, !.CC = c, !.Subject = s, !.Headers = h] :
     f \in {"", "a@x.com"}, t \in Rcpts, c \in Rcpts, s \in {"", "S"},
     h \in HeaderInputs}

InitHdr ==
  /\ e \in EmailsHdr
  /\ hres = NoHres
  /\ IdleCW
  /\ IdleID
  /\ IdleIO

MsgHeaders ==
  /\ ~hres.called
  /\ \E now \in Times :
       LET r == msgHeaders(e, now)
       IN  hres' = [called |-> TRUE, res |-> r.res, err |-> r.err]
  /\ UNCHANGED <<e, ids, cwVars, ioVars>>

NextHdr == MsgHeaders

SpecHdr == InitHdr /\ [][NextHdr]_vars

Derived(em, f) ==
  CASE f = to -> strings_Join(em.To, ", ")
    [] f = cc -> strings_Join(em.CC, ", ")
    [] f = subject -> em.Subject
    [] f = from -> em.From

\* C3: for each of To, Cc, Subject and From the assembled header holds the
\* value from Headers when Headers contains the field, and otherwise the value
\* derived from the structured field whenever that field is non-empty.
C3_HeaderPrecedence ==
  (hres.called /\ hres.err = Nil) =>
    \A f \in {to, cc, subject, from} :
      IF MapHas(e.Headers.m, f)
      THEN MapGet(hres.res, f) = e.Headers.m[f]
      ELSE Derived(e, f) # "" => MapGet(hres.res, f) = <<S(Derived(e, f))>>

(***************************************************************************)
(* Specification SpecID: calls of messageID on an Email whose fields the   *)
(* caller may set between the calls.                                       *)
(***************************************************************************)
Bodies == {<<>>, <<"h", "i", "\n">>}
EmailsID ==
  {[ZeroEmail EXCEPT !.From = "a@x.com", !.Subject = s, !.Text = t, !.To = r] :
     s \in {"", "S"}, t \in Bodies, r \in Rcpts}

InitID ==
  /\ e \in EmailsID
  /\ ids = <<>>
  /\ IdleCW
  /\ IdleHdr
  /\ IdleIO

MessageID ==
  /\ Len(ids) < MaxIDs
  /\ \E ts \in Times :
       ids' = Append(ids, [e |-> e, ts |-> ts, id |-> messageID(e, ts)])
  /\ UNCHANGED <<e, hres, cwVars, ioVars>>

SetFields ==
  /\ Len(ids) < MaxIDs
  /\ \E em \in EmailsID : em # e /\ e' = em
  /\ UNCHANGED <<ids, hres, cwVars, ioVars>>

NextID == MessageID \/ SetFields

SpecID == InitID /\ [][NextID]_vars

Bucket(ts) == ts \div (5 * Minute)
SameContent(a, b) ==
  a.From = b.From /\ a.Subject = b.Subject /\ a.Text = b.Text /\ a.HTML = b.HTML

\* C10: two Message-Ids generated for Emails with identical From, Subject,
\* Text and HTML are equal when the timestamps fall in the same 5-minute
\* bucket and different when they fall in two different buckets.
C10_Bucketing ==
  \A i, j \in 1..Len(ids) :
    SameContent(ids[i].e, ids[j].e) =>
      /\ Bucket(ids[i].ts) = Bucket(ids[j].ts) => ids[i].id = ids[j].id
      /\ Bucket(ids[i].ts) # Bucket(ids[j].ts) => ids[i].id # ids[j].id

(***************************************************************************)
(* The inputs of the specifications that encode                            *)
(***************************************************************************)
\* Source 1 is the file rad.txt, every other one a file raw.bin; source i
\* holds (2 * i) % 6 bytes.
Source(i, seeker, closeErr) ==
  [name |-> IF i = 1 THEN "rad.txt" ELSE "raw.bin",
   data |-> [j \in 1..((2 * i) % 6) |-> IF j = 1 THEN "a" ELSE "b"],
   pos |-> 0, seeker |-> seeker, closeErr |-> closeErr, closes |-> 0,
   st |-> "free"]

\* The contentType argument of Attach
CTypeArgs == {"", "application/pdf"}

Clock == {k * Minute : k \in 0..MaxClock}

TextBodies == {<<>>, <<"h", "i", " ", "=", "\n">>}
HTMLBodies == {<<>>, <<"<", "b", ">">>}

\* Emails with every field the round trip is about, Headers nil.
EmailsFull ==
  {[ZeroEmail EXCEPT !.From = "a@x.com", !.To = <<Addr(1)>>, !.Subject = "S",
                     !.Text = <<"h", "i", " ", "=", "\n">>,
                     !.HTML = <<"<", "b", ">">>]}

\* Emails without To and Subject: From empty or set, Text and HTML empty
\* or set, Headers nil, empty or holding one other field.
EmailsLean ==
  {[ZeroEmail EXCEPT !.From = f, !.Text = t, !.HTML = h, !.Headers = hd] :
     f \in {"", "a@x.com"}, t \in TextBodies, h \in HTMLBodies,
     hd \in {NilHeaders, Headers(EmptyMap),
             Headers([k \in {"X-Tag"} |-> <<S("Zo\\xC3\\xAB")>>])}}

\* The orders in which writeTo may see the top-level header fields.
Orders(em, now) ==
  IF writeTo_hdrs(em, now).err # Nil THEN {<<>>}
  ELSE RangeOrders(writeTo_hdrs(em, now).res)

(***************************************************************************)
(* The actions of the life cycle of an Email                               *)
(***************************************************************************)
\* The caller's view after err := e.Attach(rc, ...), with r what happened.
AttachReturns(rc, r) ==
  /\ e' = r.e
  /\ srcs' = [r.srcs EXCEPT ![rc].st = IF r.err = Nil THEN "attached" ELSE "rejected"]

Attach ==
  /\ ~ret.called
  /\ cl.calls = 0
  /\ Len(e.Attachments) < MaxAttach
  /\ \E rc \in DOMAIN srcs, ctype \in CTypeArgs :
       /\ srcs[rc].st = "free"
       /\ AttachReturns(rc, email_Attach(e, srcs, rc, srcs[rc].name, ctype))
  /\ UNCHANGED <<out, ret, dec, cl, hres, ids, cwVars, tree, rd>>

\* The caller's view after n, err := e.WriteTo(w), with r what happened.
WriteToReturns(r) ==
  /\ out' = r.w
  /\ srcs' = r.srcs
  /\ ret' = [called |-> TRUE, op |-> "WriteTo", n |-> r.n, err |-> r.err]

WriteTo ==
  /\ ~ret.called
  /\ \E now \in Clock :
       \E order \in Orders(e, now) :
         WriteToReturns(email_WriteTo(e, out, srcs, now, order))
  /\ UNCHANGED <<e, dec, cl, hres, ids, cwVars, tree, rd>>

\* MarshalText writes to a buffer of its own, which out stands for.
\* The caller's view after b, err := e.MarshalText(), with r what happened.
MarshalTextReturns(r) ==
  /\ out' = r.w
  /\ srcs' = r.srcs
  /\ ret' = [called |-> TRUE, op |-> "MarshalText", n |-> Len(r.b), err |-> r.err]

MarshalText ==
  /\ ~ret.called
  /\ \E now \in Clock :
       \E order \in Orders(e, now) :
         MarshalTextReturns(email_MarshalText(e, srcs, now, order))
  /\ UNCHANGED <<e, dec, cl, hres, ids, cwVars, tree, rd>>

\* The caller's view after e, err := New(r), with r what happened.
NewReturns(r) == dec' = [called |-> TRUE, e |-> r.e, ps |-> r.ps, err |-> r.err]

New ==
  /\ ~dec.called
  /\ NewReturns(email_New(out.got))
  /\ UNCHANGED <<e, srcs, out, ret, cl, hres, ids, cwVars, tree, rd>>

\* The caller's view after err := e.Close(), with r what happened.
CloseReturns(r) ==
  /\ srcs' = r.srcs
  /\ cl' = [calls |-> cl.calls + 1, err |-> r.err]

Close ==
  /\ cl.calls < MaxClose
  /\ CloseReturns(email_Close(e.Attachments, srcs))
  /\ UNCHANGED <<e, out, ret, dec, hres, ids, cwVars, tree, rd>>

(***************************************************************************)
(* Specification Spec: an Email with From, To, Subject, Text and HTML is   *)
(* built (Attach, by a caller that holds the one file rad.txt), encoded    *)
(* (WriteTo into a buffer that accepts every write, or MarshalText) and    *)
(* the bytes produced are decoded (New).                                   *)
(***************************************************************************)
Init ==
  /\ e \in EmailsFull
  /\ srcs = [i \in {1} |-> Source(i, TRUE, FALSE)]
  /\ out = NewSink(NoFail)
  /\ ret = NoRet
  /\ dec = NoDec
  /\ cl = NoCl
  /\ tree = NoTree
  /\ rd = NoRd
  /\ IdleCW
  /\ IdleHdr
  /\ IdleID

\* New on the bytes that the encoding produced
Decode == ret.called /\ New

Next == Attach \/ WriteTo \/ MarshalText \/ Decode

Spec == Init /\ [][Next]_vars

\* What the quoted-printable round trip makes of a body: every line break
\* is CRLF.
RECURSIVE CRLFNorm(_)
CRLFNorm(b) ==
  IF b = <<>> THEN <<>>
  ELSE IF Len(b) >= 2 /\ b[1] = "\r" /\ b[2] = "\n"
  THEN <<"\r", "\n">> \o CRLFNorm(SubSeq(b, 3, Len(b)))
  ELSE IF Head(b) \in {"\r", "\n"} THEN <<"\r", "\n">> \o CRLFNorm(Tail(b))
  ELSE <<Head(b)>> \o CRLFNorm(Tail(b))

RoundTripInput(em) ==
  /\ em.From # "" /\ em.To # <<>> /\ em.Subject # ""
  /\ em.Text # <<>> /\ em.HTML # <<>>

\* C1: an Email with non-empty From, To, Subject, Text and HTML and any
\* attachments, encoded and then decoded, comes back without an error and
\* with the same Subject, Text and HTML (line breaks as CRLF).
C1_RoundTrip ==
  (dec.called /\ ret.err = Nil /\ RoundTripInput(e)) =>
    /\ dec.err = Nil
    /\ dec.e.Subject = e.Subject
    /\ dec.e.Text = CRLFNorm(e.Text)
    /\ dec.e.HTML = CRLFNorm(e.HTML)

\* The round trip holds for the Emails none of whose attachments is a
\* text/plain or text/html part.
RoundTripNoTextAttachment ==
  (/\ dec.called /\ ret.err = Nil /\ RoundTripInput(e)
   /\ \A i \in 1..Len(e.Attachments) :
        mime_ParseMediaType(e.Attachments[i].Header[contentType][1][1]).mtyp
          \notin {"text/plain", "text/html"}) =>
    /\ dec.err = Nil
    /\ dec.e.Subject = e.Subject
    /\ dec.e.Text = CRLFNorm(e.Text)
    /\ dec.e.HTML = CRLFNorm(e.HTML)

(***************************************************************************)
(* Specification SpecEnc: an Email without To and Subject is built         *)
(* (Attach, from MaxSrc sources) and encoded (WriteTo into a buffer that   *)
(* accepts every write, or MarshalText).                                   *)
(***************************************************************************)
InitEnc ==
  /\ e \in EmailsLean
  /\ srcs = [i \in 1..MaxSrc |-> Source(i, i % 2 = 1, FALSE)]
  /\ out = NewSink(NoFail)
  /\ ret = NoRet
  /\ dec = NoDec
  /\ cl = NoCl
  /\ tree = NoTree
  /\ rd = NoRd
  /\ IdleCW
  /\ IdleHdr
  /\ IdleID

NextEnc == Attach \/ WriteTo \/ MarshalText

SpecEnc == InitEnc /\ [][NextEnc]_vars

\* C2: encoding an Email with From empty and no From value in Headers
\* returns the required-field error and writes no byte to the destination.
C2_NoSender ==
  (ret.called /\ e.From = "" /\ MapGet(e.Headers.m, from) = <<>>) =>
    /\ ret.err = errFrom
    /\ out.acc = 0
    /\ out.got = <<>>

\* The places of the delimiter lines of the top-level boundary in a stream.
DelimAt(toks) == {i \in 1..Len(toks) : toks[i] = Delim(mixedBoundary)}
EndAt(toks) == {i \in 1..Len(toks) : toks[i] = End(mixedBoundary)}
Nth(P, n) == CHOOSE i \in P : Cardinality({j \in P : j < i}) = n - 1
HasAlt(em) == IF Len(em.Text) > 0 \/ Len(em.HTML) > 0 THEN 1 ELSE 0

\* C5: the parts delimited by the top-level boundary are one
\* multipart/alternative part if Text or HTML is non-empty (none otherwise),
\* then one part per attachment in list order, then the closing delimiter,
\* and no other part.
C5_MixedEnvelope ==
  (ret.called /\ ret.err = Nil) =>
    LET got == out.got
        P   == DelimAt(got)
    IN  /\ Cardinality(P) = HasAlt(e) + Len(e.Attachments)
        /\ EndAt(got) = {Len(got) - 1}
        /\ HasAlt(e) = 1 =>
             LET i == Nth(P, 1)
             IN  SubSeq(got, i + 1, i + 4)
                   = <<CRLF, N(contentType), SEP, T("multipart/alternative;")>>
        /\ \A k \in 1..Len(e.Attachments) :
             LET i == Nth(P, HasAlt(e) + k)
             IN  SubSeq(got, i + 1, i + 4)
                   = <<CRLF, N(contentDispo), SEP>>
                       \o ValToks(e.Attachments[k].Header[contentDispo][1])

\* The envelope is as C5 says whenever Text or HTML is non-empty.
EnvelopeWithBody ==
  (ret.called /\ ret.err = Nil /\ HasAlt(e) = 1) => C5_MixedEnvelope

\* C9: the count WriteTo returns is the number of bytes the destination
\* accepted during the call.
C9_ByteCount ==
  (ret.called /\ ret.op = "WriteTo") => ret.n = out.acc

\* The names of the top-level header lines in the order they were written:
\* the field names before the first boundary line.
RECURSIVE HeaderNames(_)
HeaderNames(toks) ==
  IF toks = <<>> \/ Head(toks).t = "delim" THEN <<>>
  ELSE (IF Head(toks).t = "name" THEN <<Head(toks).s>> ELSE <<>>)
         \o HeaderNames(Tail(toks))

\* The place of a field in the synthesis order: To, Cc, From, Subject,
\* Date, Message-Id, then the other fields of Headers, then Mime-Version
\* and Content-Type.
SynthesisRank(f) ==
  CASE f = to -> 1
    [] f = cc -> 2
    [] f = from -> 3
    [] f = subject -> 4
    [] f = date -> 5
    [] f = msgID -> 6
    [] f = mimeVers -> 8
    [] f = contentType -> 9
    [] OTHER -> 7

\* C11: the top-level header lines are written in the synthesis order To,
\* Cc, From, Subject, Date, Message-Id, user fields, Mime-Version,
\* Content-Type (so that two encodings of one Email agree on the order).
C11_HeaderOrder ==
  (ret.called /\ ret.err = Nil) =>
    \A i, j \in 1..Len(HeaderNames(out.got)) :
      i < j => SynthesisRank(HeaderNames(out.got)[i])
                 < SynthesisRank(HeaderNames(out.got)[j])

\* Whatever the order, every field that holds a value is written once.
HeaderFieldsOnce ==
  (ret.called /\ ret.err = Nil) =>
    /\ mimeVers \in {HeaderNames(out.got)[i] : i \in 1..Len(HeaderNames(out.got))}
    /\ contentType \in {HeaderNames(out.got)[i] : i \in 1..Len(HeaderNames(out.got))}
    /\ \A i, j \in 1..Len(HeaderNames(out.got)) :
         HeaderNames(out.got)[i] = HeaderNames(out.got)[j] => i = j

\* Where the parts of the attachments start in a stream: the delimiter lines
\* of the top-level boundary that a Content-Disposition line follows.
AttachAt(toks) ==
  {i \in DelimAt(toks) : i + 2 <= Len(toks) /\ toks[i + 2] = N(contentDispo)}

\* The first index from i on where an empty line ends (the header of a part
\* ends there), and the first index after i of a boundary line.
BodyFrom(toks, i) ==
  CHOOSE j \in i..Len(toks) :
    /\ toks[j] = CRLF /\ toks[j - 1] = CRLF
    /\ \A h \in i..(j - 1) : ~(toks[h] = CRLF /\ toks[h - 1] = CRLF)
BoundaryAfter(toks, i) ==
  CHOOSE j \in (i + 1)..Len(toks) :
    /\ IsBoundaryTok(toks[j], mixedBoundary)
    /\ \A h \in (i + 1)..(j - 1) : ~IsBoundaryTok(toks[h], mixedBoundary)

\* The body of the part that starts at the delimiter line toks[i]: what is
\* between the empty line and the CRLF of the next boundary line.
PartBody(toks, i) ==
  SubSeq(toks, BodyFrom(toks, i) + 1, BoundaryAfter(toks, i) - 2)

\* The complete, padded base64 encoding of content, in one line that ends
\* in CRLF (the contents of the model are shorter than one line).
EncodedBody(content) ==
  (IF content = <<>> THEN <<>> ELSE <<Data(base64_Encode(content))>>) \o <<CRLF>>

\* C12: for an Email with two or more attachments, the body of the part of
\* attachment k is the complete, padded base64 encoding of the content of
\* attachment k and nothing else, ended by a CRLF inside the part.
C12_AttachmentIsolation ==
  (ret.called /\ ret.err = Nil /\ Len(e.Attachments) >= 2) =>
    /\ Cardinality(AttachAt(out.got)) = Len(e.Attachments)
    /\ \A k \in 1..Len(e.Attachments) :
         PartBody(out.got, Nth(AttachAt(out.got), k))
           = EncodedBody(srcs[e.Attachments[k].Body].data)

\* The part of the one attachment of an Email holds its encoding.
OneAttachmentBody ==
  (ret.called /\ ret.err = Nil /\ Len(e.Attachments) = 1) =>
    /\ Cardinality(AttachAt(out.got)) = 1
    /\ PartBody(out.got, Nth(AttachAt(out.got), 1))
         = EncodedBody(srcs[e.Attachments[1].Body].data)

(***************************************************************************)
(* Specification SpecSink: WriteTo into a destination one of whose writes  *)
(* fails, for good (sticky) or that one time only.                         *)
(***************************************************************************)
FailPlans == {[left |-> k, sticky |-> st] : k \in 0..MaxFailAt, st \in BOOLEAN}

EmailsSink ==
  {em \in EmailsLean : em.From # "" /\ ~em.Headers.isNil /\ Len(em.Text) >= Len(em.HTML)}

InitSink ==
  /\ e \in EmailsSink
  /\ srcs = [i \in {1} |-> Source(i, TRUE, FALSE)]
  /\ \E fail \in FailPlans : out = NewSink(fail)
  /\ ret = NoRet
  /\ dec = NoDec
  /\ cl = NoCl
  /\ tree = NoTree
  /\ rd = NoRd
  /\ IdleCW
  /\ IdleHdr
  /\ IdleID

NextSink == Attach \/ WriteTo

SpecSink == InitSink /\ [][NextSink]_vars

\* C8: if a write to the destination fails during WriteTo, no further write
\* is attempted on it and WriteTo returns a non-nil error.
C8_SinkFailure ==
  (ret.called /\ out.failed) => (out.after = 0 /\ ret.err # Nil)

(***************************************************************************)
(* Specification SpecDec: New on a message that some other program wrote, *)
(* a tree of at most MaxLeaves leaves.  Leaf i holds the bytes L and i; a  *)
(* leaf of kind none has no Content-Type and is quoted-printable, its      *)
(* bytes L, = and i.                                                       *)
(***************************************************************************)
LeafKinds == {"plain", "html", "none", "pdf"}

\* The trees: the leaves are the parts of one multipart/mixed entity
\* (flat), the first k of them are the parts of a multipart/alternative
\* part of it (nested), or the message is the one leaf (single).
KindLists == UNION {[1..n -> LeafKinds] : n \in 0..MaxLeaves}

Trees ==
  {[shape |-> "flat", kinds |-> ks, k |-> 0] : ks \in KindLists}
  \cup UNION {{[shape |-> "nested", kinds |-> ks, k |-> k] : k \in 1..Len(ks)} :
               ks \in KindLists}
  \cup {[shape |-> "single", kinds |-> <<kind>>, k |-> 0] : kind \in LeafKinds}

LeafHeader(kind) ==
  CASE kind = "plain" -> <<N(contentType), SEP, T("text/plain; charset=us-ascii"), CRLF>>
    [] kind = "html" -> <<N(contentType), SEP, T("text/html"), CRLF>>
    [] kind = "pdf" -> <<N(contentType), SEP, T("application/pdf"), CRLF>>
    [] kind = "none" -> <<N(contentXferEncoding), SEP, T("quoted-printable"), CRLF>>

\* The bytes of leaf i as they are in the message
LeafRaw(kind, i) ==
  IF kind = "none" THEN <<"L", "=", "3", "D", ToString(i)>> ELSE <<"L", ToString(i)>>

\* The content of leaf i: a part's quoted-printable body is decoded by its
\* reader, the body of a message that is no multipart is not.
LeafBody(t, i) ==
  IF t.kinds[i] = "none" /\ t.shape # "single" THEN <<"L", "=", ToString(i)>>
  ELSE LeafRaw(t.kinds[i], i)

LeafType(kind) ==
  CASE kind = "html" -> "text/html"
    [] kind = "pdf" -> "application/pdf"
    [] OTHER -> "text/plain"

RECURSIVE RenderParts(_, _, _, _)
RenderParts(b, kinds, i, n) ==
  IF i > n THEN <<End(b), CRLF>>
  ELSE <<Delim(b), CRLF>> \o LeafHeader(kinds[i])
         \o <<CRLF, Data(LeafRaw(kinds[i], i)), CRLF>>
         \o RenderParts(b, kinds, i + 1, n)

Render(t) ==
  LET top == <<N(from), SEP, T("a@x.com"), CRLF, N(subject), SEP, T("S"), CRLF>>
      n   == Len(t.kinds)
  IN  CASE t.shape = "single" ->
             top \o LeafHeader(t.kinds[1]) \o <<CRLF, Data(LeafRaw(t.kinds[1], 1))>>
        [] t.shape = "flat" ->
             top \o <<N(contentType), SEP,
                      T("multipart/mixed; boundary=" \o mixedBoundary), CRLF, CRLF>>
                 \o RenderParts(mixedBoundary, t.kinds, 1, n)
        [] t.shape = "nested" ->
             top \o <<N(contentType), SEP,
                      T("multipart/mixed; boundary=" \o mixedBoundary), CRLF, CRLF>>
                 \o <<Delim(mixedBoundary), CRLF, N(contentType), SEP,
                      T("multipart/alternative; boundary=" \o altBoundary), CRLF, CRLF>>
                 \o RenderParts(altBoundary, t.kinds, 1, t.k)
                 \o RenderParts(mixedBoundary, t.kinds, t.k + 1, n)

InitDec ==
  /\ tree \in Trees
  /\ rd = NoRd
  /\ out = [NewSink(NoFail) EXCEPT !.got = Render(tree), !.acc = ToksLen(Render(tree))]
  /\ e = ZeroEmail
  /\ srcs = <<>>
  /\ ret = NoRet
  /\ dec = NoDec
  /\ cl = NoCl
  /\ IdleCW
  /\ IdleHdr
  /\ IdleID

NextDec == New

SpecDec == InitDec /\ [][NextDec]_vars

\* The leaves of type typ, in the order of the tree
LeavesOf(t, typ) == {i \in 1..Len(t.kinds) : LeafType(t.kinds[i]) = typ}
Max(P) == CHOOSE i \in P : \A j \in P : j <= i
Min(P) == CHOOSE i \in P : \A j \in P : i <= j

\* The body of the last (of the first) leaf of type typ, empty without one
LastOf(t, typ) ==
  IF LeavesOf(t, typ) = {} THEN <<>> ELSE LeafBody(t, Max(LeavesOf(t, typ)))
FirstOf(t, typ) ==
  IF LeavesOf(t, typ) = {} THEN <<>> ELSE LeafBody(t, Min(LeavesOf(t, typ)))

\* C4 (amended): New flattens the tree into its leaves in order, and Text
\* is the body of the last leaf whose type is text/plain (a leaf with no
\* Content-Type counting as one), HTML the body of the last leaf whose type
\* is text/html; each is empty when there is no such leaf.
C4_LastLeaf ==
  dec.called =>
    /\ dec.err = Nil
    /\ dec.ps = [i \in 1..Len(tree.kinds) |->
                   [ctyp |-> LeafType(tree.kinds[i]), body |-> LeafBody(tree, i)]]
    /\ dec.e.Text = LastOf(tree, "text/plain")
    /\ dec.e.HTML = LastOf(tree, "text/html")

\* A decoded tree with two text/plain leaves, the first without a
\* Content-Type, and Text the body of the second.
C4_Witness ==
  /\ dec.called /\ dec.err = Nil
  /\ Cardinality(LeavesOf(tree, "text/plain")) >= 2
  /\ tree.kinds[Min(LeavesOf(tree, "text/plain"))] = "none"
  /\ LeavesOf(tree, "text/html") # {}
  /\ dec.e.Text = LeafBody(tree, Max(LeavesOf(tree, "text/plain")))
  /\ dec.e.Text # FirstOf(tree, "text/plain")

\* C4 as stated: Text is the body of the first leaf whose type is
\* text/plain and HTML the body of the first leaf whose type is text/html.
C4_FirstLeaf ==
  dec.called =>
    /\ dec.e.Text = FirstOf(tree, "text/plain")
    /\ dec.e.HTML = FirstOf(tree, "text/html")

(***************************************************************************)
(* Specification SpecTrim: a stream of at most MaxStream bytes is read     *)
(* through trimReader{rd: io.LimitReader(r, maxSize)}; each Read of the    *)
(* source returns between one and MaxChunk of the bytes that are left.     *)
(***************************************************************************)
StreamBytes == {" ", "\n", "x"}
Streams == UNION {[1..n -> StreamBytes] : n \in 0..MaxStream}

InitTrim ==
  /\ \E in \in Streams, maxSize \in 1..MaxStream :
       rd = [in |-> in, pos |-> 0, max |-> maxSize, N |-> maxSize, got |-> <<>>,
             reads |-> 0]
  /\ e = ZeroEmail
  /\ srcs = <<>>
  /\ out = NewSink(NoFail)
  /\ ret = NoRet
  /\ dec = NoDec
  /\ cl = NoCl
  /\ tree = NoTree
  /\ IdleCW
  /\ IdleHdr
  /\ IdleID

\* One Read of the bufio.Reader's buffer (room for MaxChunk bytes) that the
\* source answers with k bytes; at the cap or at the end of the source a
\* Read returns io.EOF and no byte.
TrimRead ==
  /\ rd.N > 0
  /\ rd.pos < Len(rd.in)
  /\ \E k \in 1..MaxChunk : rd' = trimReader_ReadChunk(rd, MaxChunk, k)
  /\ UNCHANGED <<e, srcs, out, ret, dec, cl, tree, hres, ids, cwVars>>

NextTrim == TrimRead

SpecTrim == InitTrim /\ [][NextTrim]_vars

\* C13: the bytes the decoder received are the bytes read from the stream
\* so far (never more than the size cap) without the white space the stream
\* starts with, every other byte unchanged and in order.
C13_TrimPreserves ==
  /\ rd.pos <= rd.max
  /\ rd.got = bytes_TrimLeftFunc(SubSeq(rd.in, 1, rd.pos))

\* The cap holds, and what one Read delivers of a stream is the stream
\* without the white space it starts with.
TrimOfOneRead ==
  /\ rd.pos + rd.N = rd.max /\ rd.N >= 0
  /\ rd.reads <= 1 => rd.got = bytes_TrimLeftFunc(SubSeq(rd.in, 1, rd.pos))

(***************************************************************************)
(* Specification SpecClose: Attach, WriteTo and Close on one Email, each   *)
(* source an io.Seeker or not and with a Close that fails or not.          *)
(***************************************************************************)
InitClose ==
  /\ e = [ZeroEmail EXCEPT !.From = "a@x.com", !.Headers = Headers(EmptyMap)]
  /\ srcs \in {[i \in 1..MaxSrc |-> Source(i, sk[i], ce[i])] :
                 sk \in [1..MaxSrc -> BOOLEAN], ce \in [1..MaxSrc -> BOOLEAN]}
  /\ out = NewSink(NoFail)
  /\ ret = NoRet
  /\ dec = NoDec
  /\ cl = NoCl
  /\ tree = NoTree
  /\ rd = NoRd
  /\ IdleCW
  /\ IdleHdr
  /\ IdleID

NextClose == Attach \/ WriteTo \/ Close

SpecClose == InitClose /\ [][NextClose]_vars

\* C6: once Close has been invoked, every source that was attached has had
\* its own Close called exactly once.
C6_ReleasedOnce ==
  cl.calls > 0 =>
    \A rc \in DOMAIN srcs : srcs[rc].st = "attached" => srcs[rc].closes = 1

\* After one Close that returned nil every attached source is closed once,
\* and a source that Attach rejected was closed by Attach.
ReleasedOnceWithoutError ==
  /\ (cl.calls = 1 /\ cl.err = Nil) =>
       \A rc \in DOMAIN srcs : srcs[rc].st = "attached" => srcs[rc].closes = 1
  /\ cl.calls = 0 =>
       \A rc \in DOMAIN srcs :
         srcs[rc].closes = (IF srcs[rc].st = "rejected" THEN 1 ELSE 0)

====
